---- MODULE Spec2Model ----
(***************************************************************************)
(* The link board of the Terabox bot: the file_board table of database.py  *)
(* (init_db, db_connect, add_link, list_links, search_links,               *)
(* get_link_by_id) and the replies bot.py derives from their results.      *)
(*                                                                         *)
(* Spec      one store operation at a time, each a whole call              *)
(* SpecBot   one bot command at a time (/upload, /request, /download),     *)
(*           each a whole handler with the store and resolver calls it     *)
(*           makes                                                         *)
(* SpecConc  the same operations of several callers, interleaved at the    *)
(*           statement level of db_connect, over SQLite's file locks       *)
(***************************************************************************)
EXTENDS Integers, Sequences, FiniteSets, TLC

VARIABLES
    table,      \* file_board: the committed rows, in rowid order
    seq,        \* sqlite_sequence.seq of file_board (AUTOINCREMENT)
    clock,      \* CURRENT_TIMESTAMP: the current second
    last,       \* Spec: the last store call, its arguments and what it gave back
    inserted,   \* history: id -> the arguments of the add_link that got that id
    pc,         \* SpecConc: where each caller stands in its operation
    txn,        \* SpecConc: each caller's connection (pending row, snapshot, call)
    reserved,   \* SpecConc: holders of SQLite's RESERVED lock
    shared,     \* SpecConc: the callers holding a SHARED lock (open read statement)
    writing,    \* SpecConc: holders of the EXCLUSIVE lock, writing the file
    calls,      \* SpecConc history: every add_link call started, with its outcome
    commitOrder,\* SpecConc history: the calls that committed, in commit order
    bot         \* SpecBot: the last bot command handled and what it did

vars == <<table, seq, clock, last, inserted, pc, txn, reserved, shared, writing,
          calls, commitOrder, bot>>

seqVars  == <<table, seq, clock, last, inserted>>
concVars == <<pc, txn, reserved, shared, writing, calls, commitOrder>>
botVars  == <<bot>>

(***************************************************************************)
(* Bounds of the model                                                     *)
(***************************************************************************)
MaxRecords == 2     \* add_link is not called once the table holds this many rows
MaxClock   == 1     \* the clock stops ticking here
MaxCalls   == 3     \* SpecConc: add_link calls started in one behaviour

(***************************************************************************)
(* Inputs                                                                  *)
(***************************************************************************)
\* Telegram user and chat ids (always within 64 bits)
UserIds == {101}
ChatIds == {-201}

\* terabox_link values: share links accepted by TERABOX_LINK_PATTERN, opaque here
Links == {"https://terabox.com/s/1a", "https://terabox.com/s/1b", "https://terabox.com/s/1c"}

\* Text is a sequence of characters.
Descriptions == { <<"a", "x", "b">>, <<"A", "B">> }
Queries      == { <<"b">>, <<"a", "_", "b">>, <<"z">> }

\* limit arguments: list_command passes 20; search_command 20, request_command 1
ListLimits   == {-1, 1, 20}
SearchLimits == {1, 20}

\* A Python int argument is a sequence of decimal digits, most significant first
\* (Python ints are unbounded; these values do not fit TLC's integers).
\* 2^63 - 1, the largest SQLite INTEGER, and 2^63
INT64_MAX  == <<9,2,2,3,3,7,2,0,3,6,8,5,4,7,7,5,8,0,7>>
INT64_OVER == <<9,2,2,3,3,7,2,0,3,6,8,5,4,7,7,5,8,0,8>>
LinkIds == { <<1>>, <<2>>, INT64_OVER }

\* Where a storage-layer fault (sqlite3.OperationalError) strikes a call. A read
\* opens no transaction, so its commit has nothing to write and does not fail.
Faults     == {"none", "connect", "execute", "commit"}
ReadFaults == {"none", "connect", "execute"}

(***************************************************************************)
(* Python ints and their binding as SQLite INTEGER parameters              *)
(***************************************************************************)
RECURSIVE LexLeq(_, _)
LexLeq(a, b) ==
    IF a = <<>> THEN TRUE
    ELSE IF Head(a) < Head(b) THEN TRUE
    ELSE IF Head(a) > Head(b) THEN FALSE
    ELSE LexLeq(Tail(a), Tail(b))

\* sqlite3 binds a Python int as a signed 64-bit INTEGER and raises
\* OverflowError (no sqlite3.Error) when it does not fit.
FitsSqliteInteger(d) ==
    \/ Len(d) < Len(INT64_MAX)
    \/ Len(d) = Len(INT64_MAX) /\ LexLeq(d, INT64_MAX)

RECURSIVE IntValue(_)
IntValue(d) == IF d = <<>> THEN 0 ELSE 10 * IntValue(SubSeq(d, 1, Len(d) - 1)) + d[Len(d)]

\* id = ? : the stored ids of the model are far below 10^9
IdEquals(id, d) == Len(d) <= 9 /\ id = IntValue(d)

(***************************************************************************)
(* SQLite's LIKE (no ESCAPE): % is any run of characters, _ any one        *)
(* character, other characters match ASCII letters case-insensitively      *)
(***************************************************************************)
Fold(c) == CASE c = "A" -> "a" [] c = "B" -> "b" [] c = "C" -> "c"
             [] c = "X" -> "x" [] c = "Z" -> "z" [] OTHER -> c

RECURSIVE LikeMatch(_, _)
LikeMatch(p, s) ==
    IF p = <<>> THEN s = <<>>
    ELSE IF Head(p) = "%"
         THEN \E k \in 0..Len(s) : LikeMatch(Tail(p), SubSeq(s, k + 1, Len(s)))
    ELSE IF s = <<>> THEN FALSE
    ELSE IF Head(p) = "_" THEN LikeMatch(Tail(p), Tail(s))
    ELSE Fold(Head(p)) = Fold(Head(s)) /\ LikeMatch(Tail(p), Tail(s))

\* search_term = f"%{query}%"
SearchTerm(query) == <<"%">> \o query \o <<"%">>

(***************************************************************************)
(* Python values handed back to the caller                                 *)
(***************************************************************************)
PyBool(b)    == [type |-> "bool", b |-> b, i |-> 0, rows |-> <<>>]
PyInt(i)     == [type |-> "int", b |-> FALSE, i |-> i, rows |-> <<>>]
PyList(rows) == [type |-> "list", b |-> FALSE, i |-> 0, rows |-> rows]
PyDict(row)  == [type |-> "dict", b |-> FALSE, i |-> 0, rows |-> <<row>>]
PyNone       == [type |-> "NoneType", b |-> FALSE, i |-> 0, rows |-> <<>>]
\* no value: an exception left the function
NoValue      == [type |-> "raised", b |-> FALSE, i |-> 0, rows |-> <<>>]

\* the number a Python value compares equal to (True == 1, False == 0)
NumericValue(v) == IF v.type = "bool" THEN (IF v.b THEN 1 ELSE 0) ELSE v.i

\* sqlite3.IntegrityError and sqlite3.OperationalError derive from sqlite3.Error;
\* OverflowError does not.
IsSqliteError(exc) == exc \in {"IntegrityError", "OperationalError"}

(***************************************************************************)
(* The file_board table and the statements run against it                  *)
(***************************************************************************)
Max2(x, y) == IF x >= y THEN x ELSE y
Min2(x, y) == IF x <= y THEN x ELSE y

Rows(tbl) == { tbl[i] : i \in 1..Len(tbl) }

Ids(tbl) == { tbl[i].id : i \in 1..Len(tbl) }

MaxOf(S) == IF S = {} THEN 0
            ELSE LET x == CHOOSE y \in S : \A z \in S : z <= y IN x

\* mutant: the column without its UNIQUE constraint
UniqueViolation_NoConstraint(tbl, link) == FALSE

\* terabox_link TEXT NOT NULL UNIQUE
UniqueViolation(tbl, link) == \E i \in 1..Len(tbl) : tbl[i].terabox_link = link

\* mutant: the largest id used so far is handed out again
NextRowId_NoIncrement(tbl, sq) == Max2(1, Max2(sq, MaxOf(Ids(tbl))))

\* id INTEGER PRIMARY KEY AUTOINCREMENT: one more than the largest id ever used
NextRowId(tbl, sq) == Max2(sq, MaxOf(Ids(tbl))) + 1

\* the row an INSERT (user_id, chat_id, description, terabox_link) builds;
\* timestamp DATETIME DEFAULT CURRENT_TIMESTAMP
NewRow(id, a, now) ==
    [id |-> id, user_id |-> a.user_id, chat_id |-> a.chat_id,
     description |-> a.description, terabox_link |-> a.terabox_link,
     timestamp |-> now]

\* cursor.execute("INSERT INTO file_board ...") inside the open transaction
ExecInsert(tbl, sq, now, a) ==
    IF UniqueViolation(tbl, a.terabox_link)
    THEN [exc |-> "IntegrityError", rows |-> <<>>]
    ELSE [exc |-> "none", rows |-> <<NewRow(NextRowId(tbl, sq), a, now)>>]

\* ORDER BY timestamp DESC: every arrangement of the rows with timestamps
\* non-increasing (SQL leaves the order of equal timestamps open)
OrderByTimestampDesc(rows) ==
    LET n == Len(rows)
        perms == { p \in [1..n -> 1..n] :
                     /\ \A i, j \in 1..n : i # j => p[i] # p[j]
                     /\ \A i \in 1..n : i < n =>
                            rows[p[i]].timestamp >= rows[p[i + 1]].timestamp }
    IN  { [i \in 1..n |-> rows[p[i]]] : p \in perms }

\* mutant: one row too many
SqlLimit_OffByOne(rows, limit) ==
    IF limit < 0 THEN rows ELSE SubSeq(rows, 1, Min2(limit + 1, Len(rows)))

\* LIMIT ?: a negative limit is no limit in SQLite
SqlLimit(rows, limit) ==
    IF limit < 0 THEN rows ELSE SubSeq(rows, 1, Min2(limit, Len(rows)))

\* WHERE description LIKE ?
WhereDescriptionLike(tbl, term) ==
    SelectSeq(tbl, LAMBDA r : LikeMatch(term, r.description))

\* mutant: the WHERE clause forgotten, fetchone takes the first row
WhereId_AnyRow(tbl, link_id) == tbl

\* WHERE id = ?
WhereId(tbl, link_id) == SelectSeq(tbl, LAMBDA r : IdEquals(r.id, link_id))

\* SELECT id, description, timestamp
ListColumns(rows) ==
    [i \in 1..Len(rows) |-> [id |-> rows[i].id, description |-> rows[i].description,
                             timestamp |-> rows[i].timestamp]]

\* SELECT id, description, terabox_link
FullColumns(r) ==
    [id |-> r.id, description |-> r.description, terabox_link |-> r.terabox_link]

(***************************************************************************)
(* db_connect: the transactional scope around the body of an operation.    *)
(* fault says where a storage fault strikes, bodyExc what the body raised. *)
(* It gives the calls made on the connection and the exception that        *)
(* leaves the with statement.                                              *)
(***************************************************************************)
db_connect(fault, bodyExc) ==
    IF fault = "connect"
    THEN \* sqlite3.connect raised: conn is None, nothing to roll back or close
         [events |-> <<>>, exc |-> "OperationalError"]
    ELSE IF bodyExc = "none"
    THEN IF fault = "commit"
         THEN [events |-> <<"connect", "commit_failed", "rollback", "close">>,
               exc |-> "OperationalError"]
         ELSE [events |-> <<"connect", "commit", "close">>, exc |-> "none"]
    ELSE IF IsSqliteError(bodyExc)
    THEN [events |-> <<"connect", "rollback", "close">>, exc |-> bodyExc]
    ELSE \* not a sqlite3.Error: only the finally clause runs
         [events |-> <<"connect", "close">>, exc |-> bodyExc]

(***************************************************************************)
(* The store operations, each as one call: the outcomes it can have        *)
(***************************************************************************)
\* mutant: no except clause for sqlite3.IntegrityError, and the generic one
\* placed after a re-raise
add_link_return_IntegrityEscapes(exc) ==
    IF exc = "none" THEN PyBool(TRUE)
    ELSE IF exc = "IntegrityError" THEN NoValue
    ELSE IF IsSqliteError(exc) THEN PyBool(FALSE)
    ELSE NoValue

\* mutant: only sqlite3.IntegrityError is caught
add_link_return_OnlyIntegrity(exc) ==
    IF exc = "none" THEN PyBool(TRUE)
    ELSE IF exc = "IntegrityError" THEN PyBool(FALSE)
    ELSE NoValue

\* what add_link returns for the exception that left the with statement
add_link_return(exc) ==
    IF exc = "none" THEN PyBool(TRUE)
    ELSE IF exc = "IntegrityError" THEN PyBool(FALSE)
    ELSE IF IsSqliteError(exc) THEN PyBool(FALSE)
    ELSE NoValue

\* the exception the caller sees: the one no except clause of the function took
Raised(exc, ret) == IF ret.type = "raised" THEN exc ELSE "none"

add_link(tbl, sq, now, a, fault) ==
    LET ins  == IF fault = "execute"
                THEN [exc |-> "OperationalError", rows |-> <<>>]
                ELSE ExecInsert(tbl, sq, now, a)
        conn == db_connect(fault, ins.exc)
        done == conn.exc = "none"
    IN  { [table  |-> IF done THEN tbl \o ins.rows ELSE tbl,
           seq    |-> IF done THEN ins.rows[1].id ELSE sq,
           exc    |-> conn.exc, raised |-> Raised(conn.exc, add_link_return(conn.exc)),
           events |-> conn.events, ret |-> add_link_return(conn.exc)] }

\* what list_links and search_links return
rows_return(exc, rows) ==
    IF exc = "none" THEN PyList(rows)
    ELSE IF IsSqliteError(exc) THEN PyList(<<>>)
    ELSE NoValue

list_links(tbl, limit, fault) ==
    LET bodyExc == IF fault = "execute" THEN "OperationalError" ELSE "none"
        conn    == db_connect(fault, bodyExc)
    IN  { [table |-> tbl, exc |-> conn.exc,
           raised |-> Raised(conn.exc, rows_return(conn.exc, <<>>)),
           events |-> conn.events,
           ret |-> rows_return(conn.exc, ListColumns(SqlLimit(ordered, limit)))] :
          ordered \in OrderByTimestampDesc(tbl) }

search_links(tbl, query, limit, fault) ==
    LET bodyExc == IF fault = "execute" THEN "OperationalError" ELSE "none"
        conn    == db_connect(fault, bodyExc)
        hits    == WhereDescriptionLike(tbl, SearchTerm(query))
    IN  { [table |-> tbl, exc |-> conn.exc,
           raised |-> Raised(conn.exc, rows_return(conn.exc, <<>>)),
           events |-> conn.events,
           ret |-> rows_return(conn.exc, ListColumns(SqlLimit(ordered, limit)))] :
          ordered \in OrderByTimestampDesc(hits) }

\* what get_link_by_id returns
get_return(exc, rows) ==
    IF exc = "none"
    THEN IF rows # <<>> THEN PyDict(FullColumns(rows[1])) ELSE PyNone
    ELSE IF IsSqliteError(exc) THEN PyNone
    ELSE NoValue

get_link_by_id(tbl, link_id, fault) ==
    LET bodyExc == IF fault = "execute" THEN "OperationalError"
                   ELSE IF ~FitsSqliteInteger(link_id) THEN "OverflowError"
                   ELSE "none"
        conn    == db_connect(fault, bodyExc)
    IN  { [table |-> tbl, exc |-> conn.exc,
           raised |-> Raised(conn.exc, get_return(conn.exc, <<>>)),
           events |-> conn.events,
           ret |-> get_return(conn.exc, WhereId(tbl, link_id))] }

(***************************************************************************)
(* What bot.py tells the user                                              *)
(***************************************************************************)
\* upload_command: if success ... else ...
UploadReply(success) ==
    IF success.type = "bool" /\ success.b
    THEN "Link added to the board"
    ELSE "Failed to add link. It might already exist or there was a database error."

\* list_command: if not links
ListReply(links) ==
    IF links.rows = <<>> THEN "The file board is currently empty." ELSE "Recent Files on the Board"

\* search_command: if not links
SearchReply(links) ==
    IF links.rows = <<>> THEN "No files found matching" ELSE "Search Results for"

(***************************************************************************)
(* terabox_utils.py: the resolver.  A URL is a sequence of characters.     *)
(***************************************************************************)
\* str.lower() on one character (ASCII letters)
Lower(c) ==
    CASE c = "A" -> "a" [] c = "B" -> "b" [] c = "C" -> "c" [] c = "D" -> "d"
      [] c = "E" -> "e" [] c = "F" -> "f" [] c = "G" -> "g" [] c = "H" -> "h"
      [] c = "I" -> "i" [] c = "J" -> "j" [] c = "K" -> "k" [] c = "L" -> "l"
      [] c = "M" -> "m" [] c = "N" -> "n" [] c = "O" -> "o" [] c = "P" -> "p"
      [] c = "Q" -> "q" [] c = "R" -> "r" [] c = "S" -> "s" [] c = "T" -> "t"
      [] c = "U" -> "u" [] c = "V" -> "v" [] c = "W" -> "w" [] c = "X" -> "x"
      [] c = "Y" -> "y" [] c = "Z" -> "z" [] OTHER -> c

StrLower(s) == [i \in 1..Len(s) |-> Lower(s[i])]

\* str.endswith
EndsWith(s, suffix) ==
    /\ Len(suffix) <= Len(s)
    /\ \A k \in 1..Len(suffix) : s[Len(s) - Len(suffix) + k] = suffix[k]

VIDEO_EXTENSIONS ==
    { <<".", "m", "p", "4">>, <<".", "m", "k", "v">>, <<".", "a", "v", "i">>,
      <<".", "m", "o", "v">>, <<".", "w", "e", "b", "m">>, <<".", "f", "l", "v">> }

\* how an int is formatted in an f-string: its decimal digits as characters
DigitChar(d) ==
    CASE d = 0 -> "0" [] d = 1 -> "1" [] d = 2 -> "2" [] d = 3 -> "3" [] d = 4 -> "4"
      [] d = 5 -> "5" [] d = 6 -> "6" [] d = 7 -> "7" [] d = 8 -> "8" [] d = 9 -> "9"

FormatInt(digits) == [i \in 1..Len(digits) |-> DigitChar(digits[i])]

\* int(time.time()): the model's second 0 is the epoch second 1700000000
EpochSeconds(now) == <<1, 7, 0, 0, 0, 0, 0, 0, 0, now>>

\* f"https://mock-download.terabox-cdn.com/some/path/file_{int(time.time())}.zip?token=abc"
\* (the constant head of the URL is kept as one element; it is lower case and
\* lies before every suffix compared)
mock_direct_link(now) ==
    <<"https://mock-download.terabox-cdn.com/some/path/file_">>
        \o FormatInt(EpochSeconds(now))
        \o <<".", "z", "i", "p", "?", "t", "o", "k", "e", "n", "=", "a", "b", "c">>

\* mutant: every link is taken for a video
is_video_Always(link) == TRUE

\* any(mock_direct_link.lower().endswith(ext) for ext in VIDEO_EXTENSIONS)
is_video(link) == \E ext \in VIDEO_EXTENSIONS : EndsWith(StrLower(link), ext)

\* what the resolver hands back: a dict with download_link and, for a video,
\* stream_link; or None
LinkInfo(download_link, stream) ==
    [type |-> "dict", download_link |-> download_link, has_stream |-> stream,
     stream_link |-> IF stream THEN download_link ELSE <<>>]
NoLinkInfo   == [type |-> "NoneType", download_link |-> <<>>, has_stream |-> FALSE,
                 stream_link |-> <<>>]
LinkInfoLost == [type |-> "raised", download_link |-> <<>>, has_stream |-> FALSE,
                 stream_link |-> <<>>]

\* What a statement of the try block can raise: the placeholder body makes no
\* request, but any of its statements can run out of memory.
ResolveFaults == {"none", "MemoryError"}

\* requests.exceptions.RequestException and MemoryError derive from Exception
IsException(exc) == exc \in {"RequestException", "MemoryError", "OverflowError",
                             "ValueError", "IntegrityError", "OperationalError"}

get_terabox_link(terabox_url, now, fault) ==
    LET found_link == mock_direct_link(now)
    IN  IF fault = "none"
        THEN [ret |-> LinkInfo(found_link, is_video(found_link)), raised |-> "none"]
        ELSE IF fault = "RequestException" THEN [ret |-> NoLinkInfo, raised |-> "none"]
        ELSE IF IsException(fault) THEN [ret |-> NoLinkInfo, raised |-> "none"]
        ELSE [ret |-> LinkInfoLost, raised |-> fault]

\* process_terabox_link: the text the processing message is edited to
process_terabox_link(terabox_link, now, fault) ==
    LET got       == get_terabox_link(terabox_link, now, fault)
        link_info == got.ret
    IN  [url |-> terabox_link, info |-> link_info, raised |-> "none",
         text |-> IF got.raised # "none" THEN "An unexpected error occurred"
                  ELSE IF link_info.type = "NoneType" \/ link_info.download_link = <<>>
                  THEN "Failed to extract the direct link."
                  ELSE IF link_info.stream_link # <<>>
                  THEN "Link processed: Direct Download Link, Streamable Link (Video)"
                  ELSE "Link processed: Direct Download Link, No specific stream link found"]

(***************************************************************************)
(* bot.py: /request.  The query is the text after the command.             *)
(***************************************************************************)
DecimalChars == {"0", "1", "2", "3", "4", "5", "6", "7", "8", "9"}

\* str.isdigit(): true of a non-empty text of characters with the Unicode
\* property Digit, which the superscript two has as well as 0..9
isdigit(q) == q # <<>> /\ \A k \in 1..Len(q) : q[k] \in DecimalChars \cup {"²"}

\* int(q) takes decimal digits only; on anything else it raises ValueError
IsDecimal(q) == q # <<>> /\ \A k \in 1..Len(q) : q[k] \in DecimalChars

CharDigit(c) ==
    CASE c = "0" -> 0 [] c = "1" -> 1 [] c = "2" -> 2 [] c = "3" -> 3 [] c = "4" -> 4
      [] c = "5" -> 5 [] c = "6" -> 6 [] c = "7" -> 7 [] c = "8" -> 8 [] c = "9" -> 9

RECURSIVE StripZeros(_)
StripZeros(d) == IF Len(d) > 1 /\ Head(d) = 0 THEN StripZeros(Tail(d)) ELSE d

\* int(q) for decimal q: the number, as its digits
ParseInt(q) == StripZeros([k \in 1..Len(q) |-> CharDigit(q[k])])

\* the digits of a stored id (an sqlite3.Row value is a Python int)
RECURSIVE DigitsOf(_)
DigitsOf(n) == IF n < 10 THEN <<n>> ELSE Append(DigitsOf(n \div 10), n % 10)

\* one store call of a handler: what was called and what the connection saw
Lookup(op, out) == [op |-> op, exc |-> out.exc, events |-> out.events]

\* the lookups of a handler so far, the link_data they leave and the
\* exception that ended the handler
Looked(lookups, link_data, raised) ==
    [lookups |-> lookups, link_data |-> link_data, raised |-> raised]

\* if query.isdigit(): link_data = database.get_link_by_id(int(query))
RequestById(tbl, q, f) ==
    IF ~isdigit(q) THEN { Looked(<<>>, PyNone, "none") }
    ELSE IF ~IsDecimal(q) THEN { Looked(<<>>, NoValue, "ValueError") }
    ELSE { Looked(<<Lookup("get_link_by_id", g)>>, g.ret, g.raised) :
             g \in get_link_by_id(tbl, ParseInt(q), f) }

\* search_results = database.search_links(query, limit=1)
\* if search_results: link_data = database.get_link_by_id(search_results[0]['id'])
RequestByKeyword(tbl, q, f2, f3, before) ==
    UNION { IF s.ret.rows = <<>>
            THEN { Looked(before \o <<Lookup("search_links", s)>>, PyNone, "none") }
            ELSE { Looked(before \o <<Lookup("search_links", s),
                                      Lookup("get_link_by_id", g)>>, g.ret, g.raised) :
                     g \in get_link_by_id(tbl, DigitsOf(s.ret.rows[1].id), f3) } :
            s \in search_links(tbl, q, 1, f2) }

\* what a handler leaves behind: the store calls it made, the record it
\* settled on, the links it passed to the resolver with the resolver's
\* answer, its replies, and the exception that left it
Handled(cmd, q, r, resolved, info, replies) ==
    [cmd |-> cmd, query |-> q, lookups |-> r.lookups, link_data |-> r.link_data,
     resolved |-> resolved, info |-> info, replies |-> replies, raised |-> r.raised]

request_command(tbl, q, now, f1, f2, f3, rf) ==
    LET byId  == RequestById(tbl, q, f1)
        \* if not link_data:
        found == UNION { IF r.raised # "none" \/ r.link_data.type = "dict"
                         THEN {r}
                         ELSE RequestByKeyword(tbl, q, f2, f3, r.lookups) : r \in byId }
    IN  { IF r.raised # "none"
          THEN Handled("request", q, r, <<>>, NoLinkInfo, <<>>)
          ELSE IF r.link_data.type # "dict"
          THEN Handled("request", q, r, <<>>, NoLinkInfo,
                       <<"Could not find a file matching by ID or keyword.">>)
          ELSE LET p == process_terabox_link(r.link_data.rows[1].terabox_link, now, rf)
               IN  Handled("request", q, r, <<p.url>>, p.info, <<"Found entry", p.text>>) :
          r \in found }

\* download_command with a link TERABOX_LINK_PATTERN matches
download_command(terabox_link, now, rf) ==
    LET p == process_terabox_link(terabox_link, now, rf)
    IN  { Handled("download", <<>>, Looked(<<>>, PyNone, "none"), <<p.url>>, p.info,
                  <<p.text>>) }

\* upload_command with a valid link and a description
upload_command(tbl, sq, now, a, fault) ==
    { [table |-> out.table, seq |-> out.seq,
       bot |-> Handled("upload", a.description,
                       Looked(<<Lookup("add_link", out)>>, out.ret, out.raised),
                       <<>>, NoLinkInfo, <<UploadReply(out.ret)>>)] :
      out \in add_link(tbl, sq, now, a, fault) }

\* no handler has run yet
NoHandled == Handled("none", <<>>, Looked(<<>>, PyNone, "none"), <<>>, NoLinkInfo, <<>>)

(***************************************************************************)
(* Spec: one store call at a time                                          *)
(***************************************************************************)
NoArgs == [user_id |-> 0, chat_id |-> 0, description |-> <<>>, terabox_link |-> "",
           limit |-> 0, query |-> <<>>, link_id |-> <<>>]

Call(op, a, fault, dup, out) ==
    [op |-> op, a |-> a, fault |-> fault, dup |-> dup, exc |-> out.exc,
     raised |-> out.raised, events |-> out.events, ret |-> out.ret]

\* the overlapping callers of SpecConc, each with a connection of its own per
\* operation: two users uploading links and one listing the board
Uploaders == {"u1", "u2"}
Listers   == {"l1"}
Callers   == Uploaders \cup Listers

\* what the uploaders submit
ConcDescriptions == { <<"A", "B">> }
ConcLinks        == {"https://terabox.com/s/1a", "https://terabox.com/s/1b"}

NoTxn == [call |-> 0, rows |-> <<>>, snapshot |-> <<>>]

ConcInit ==
    /\ pc = [c \in Callers |-> "idle"]
    /\ txn = [c \in Callers |-> NoTxn]
    /\ reserved = {}
    /\ shared = {}
    /\ writing = {}
    /\ calls = <<>>
    /\ commitOrder = <<>>

\* the state init_db leaves on a new database file: the table exists and is empty
Init ==
    /\ table = <<>>
    /\ seq = 0
    /\ clock = 0
    /\ inserted = <<>>
    /\ last = Call("init_db", NoArgs, "none", FALSE,
                   [exc |-> "none", raised |-> "none", events |-> <<>>, ret |-> PyNone])
    /\ ConcInit
    /\ bot = NoHandled

\* a second passes. The store only compares timestamps, so the clock counts the
\* seconds in which a row was inserted: it moves on once the current one is used.
Tick ==
    /\ clock < MaxClock
    /\ \E r \in Rows(table) : r.timestamp = clock
    /\ clock' = clock + 1
    /\ UNCHANGED <<table, seq, last, inserted>>
    /\ UNCHANGED concVars
    /\ UNCHANGED botVars

Call_add_link ==
    \E u \in UserIds, ch \in ChatIds, d \in Descriptions, l \in Links, f \in Faults :
         LET a == [NoArgs EXCEPT !.user_id = u, !.chat_id = ch,
                                 !.description = d, !.terabox_link = l]
         IN  \* the table is kept within MaxRecords rows
             /\ Len(table) < MaxRecords \/ UniqueViolation(table, l)
             /\ \E out \in add_link(table, seq, clock, a, f) :
                  /\ table' = out.table
                  /\ seq' = out.seq
                  /\ inserted' = IF Len(out.table) > Len(table)
                                 THEN Append(inserted, [id |-> out.seq, description |-> d,
                                                        terabox_link |-> l])
                                 ELSE inserted
                  /\ last' = Call("add_link", a, f, UniqueViolation(table, l), out)
                  /\ UNCHANGED clock
                  /\ UNCHANGED concVars
                  /\ UNCHANGED botVars

Call_list_links ==
    /\ \E n \in ListLimits, f \in ReadFaults :
         \E out \in list_links(table, n, f) :
               /\ table' = out.table
               /\ last' = Call("list_links", [NoArgs EXCEPT !.limit = n], f, FALSE, out)
    /\ UNCHANGED <<seq, clock, inserted>>
    /\ UNCHANGED concVars
    /\ UNCHANGED botVars

Call_search_links ==
    /\ \E q \in Queries, n \in SearchLimits, f \in ReadFaults :
         \E out \in search_links(table, q, n, f) :
               /\ table' = out.table
               /\ last' = Call("search_links", [NoArgs EXCEPT !.query = q, !.limit = n],
                               f, FALSE, out)
    /\ UNCHANGED <<seq, clock, inserted>>
    /\ UNCHANGED concVars
    /\ UNCHANGED botVars

Call_get_link_by_id ==
    /\ \E i \in LinkIds, f \in ReadFaults :
         \E out \in get_link_by_id(table, i, f) :
               /\ table' = out.table
               /\ last' = Call("get_link_by_id", [NoArgs EXCEPT !.link_id = i], f, FALSE, out)
    /\ UNCHANGED <<seq, clock, inserted>>
    /\ UNCHANGED concVars
    /\ UNCHANGED botVars

Next ==
    \/ Tick
    \/ Call_add_link
    \/ Call_list_links
    \/ Call_search_links
    \/ Call_get_link_by_id

Spec == Init /\ [][Next]_vars

(***************************************************************************)
(* SpecConc: the operations of several callers, overlapping.  Each caller  *)
(* runs db_connect statement by statement on a connection of its own; the  *)
(* connections meet in SQLite's locks on the database file (rollback       *)
(* journal, the default): an INSERT takes the RESERVED lock, commit the    *)
(* EXCLUSIVE lock, a SELECT a SHARED lock until its rows are fetched.  A   *)
(* lock that is not free makes the statement wait; sqlite3.connect's       *)
(* default timeout (5 s) then ends the wait with OperationalError          *)
(* ("database is locked").                                                 *)
(***************************************************************************)
\* RESERVED: one writer at a time
ReserveAllowed(c) == reserved \subseteq {c} /\ writing \subseteq {c}

\* mutant: commit goes ahead while other connections are reading
ExclusiveAllowed_OverReaders(c) == writing \subseteq {c}

\* EXCLUSIVE: no other connection reads or writes
ExclusiveAllowed(c) == shared \subseteq {c} /\ writing \subseteq {c}

\* mutant: a SELECT that takes no notice of a writer's EXCLUSIVE lock
ShareAllowed_NoLock(c) == TRUE

\* SHARED: nobody is writing the file
ShareAllowed(c) == writing = {}

\* the call ends: what add_link gives back for the exception that left
\* db_connect, recorded with the call
Finish(k, conn) ==
    [calls EXCEPT ![k].exc = conn.exc, ![k].ret = add_link_return(conn.exc),
                  ![k].done = TRUE]

\* with db_connect() as conn: sqlite3.connect
StartAdd(c) ==
    /\ c \in Uploaders
    /\ pc[c] = "idle"
    /\ Len(calls) < MaxCalls
    /\ \E u \in UserIds, ch \in ChatIds, d \in ConcDescriptions, l \in ConcLinks :
         calls' = Append(calls,
                    [a |-> [NoArgs EXCEPT !.user_id = u, !.chat_id = ch,
                                          !.description = d, !.terabox_link = l],
                     now |-> 0, id |-> 0, exc |-> "none", ret |-> NoValue,
                     done |-> FALSE,
                     \* history: the calls under way when this one starts
                     during |-> { k \in 1..Len(calls) : ~calls[k].done }])
    /\ pc' = [pc EXCEPT ![c] = "add_connected"]
    /\ txn' = [txn EXCEPT ![c] = [NoTxn EXCEPT !.call = Len(calls) + 1]]
    /\ UNCHANGED <<reserved, shared, writing, commitOrder>>
    /\ UNCHANGED seqVars
    /\ UNCHANGED botVars

\* cursor.execute("INSERT ..."): under the RESERVED lock the row is built in the
\* connection's own transaction; a uniqueness violation raises IntegrityError,
\* db_connect rolls back and closes, add_link returns
ExecuteInsert(c) ==
    /\ pc[c] = "add_connected"
    /\ ReserveAllowed(c)
    /\ LET k   == txn[c].call
           ins == ExecInsert(table, seq, clock, calls[k].a)
       IN  IF ins.exc = "none"
           THEN /\ reserved' = reserved \cup {c}
                /\ txn' = [txn EXCEPT ![c].rows = ins.rows]
                /\ calls' = [calls EXCEPT ![k].now = clock, ![k].id = ins.rows[1].id]
                /\ pc' = [pc EXCEPT ![c] = "add_inserted"]
           ELSE /\ reserved' = reserved
                /\ txn' = [txn EXCEPT ![c] = NoTxn]
                /\ calls' = Finish(k, db_connect("none", ins.exc))
                /\ pc' = [pc EXCEPT ![c] = "idle"]
    /\ UNCHANGED <<shared, writing, commitOrder>>
    /\ UNCHANGED seqVars
    /\ UNCHANGED botVars

\* cursor.execute("INSERT ...") finds the database locked until the timeout
InsertBusy(c) ==
    /\ pc[c] = "add_connected"
    /\ ~ReserveAllowed(c)
    /\ calls' = Finish(txn[c].call, db_connect("execute", "OperationalError"))
    /\ txn' = [txn EXCEPT ![c] = NoTxn]
    /\ pc' = [pc EXCEPT ![c] = "idle"]
    /\ UNCHANGED <<reserved, shared, writing, commitOrder>>
    /\ UNCHANGED seqVars
    /\ UNCHANGED botVars

\* conn.commit(): the EXCLUSIVE lock is taken and the file is being written
CommitBegin(c) ==
    /\ pc[c] = "add_inserted"
    /\ ExclusiveAllowed(c)
    /\ writing' = writing \cup {c}
    /\ pc' = [pc EXCEPT ![c] = "add_committing"]
    /\ UNCHANGED <<txn, reserved, shared, calls, commitOrder>>
    /\ UNCHANGED seqVars
    /\ UNCHANGED botVars

\* conn.commit() done: the row is in the file, the locks are dropped, the
\* connection is closed and add_link returns
CommitEnd(c) ==
    /\ pc[c] = "add_committing"
    /\ LET k == txn[c].call
       IN  /\ table' = table \o txn[c].rows
           /\ seq' = txn[c].rows[1].id
           /\ inserted' = Append(inserted,
                             [id |-> txn[c].rows[1].id,
                              description |-> calls[k].a.description,
                              terabox_link |-> calls[k].a.terabox_link])
           /\ commitOrder' = Append(commitOrder, k)
           /\ calls' = Finish(k, db_connect("none", "none"))
    /\ writing' = writing \ {c}
    /\ reserved' = reserved \ {c}
    /\ txn' = [txn EXCEPT ![c] = NoTxn]
    /\ pc' = [pc EXCEPT ![c] = "idle"]
    /\ UNCHANGED <<shared, clock, last>>
    /\ UNCHANGED botVars

\* conn.commit() finds readers on the file until the timeout: it raises,
\* db_connect rolls the insert back and closes
CommitBusy(c) ==
    /\ pc[c] = "add_inserted"
    /\ ~ExclusiveAllowed(c)
    /\ calls' = Finish(txn[c].call, db_connect("commit", "none"))
    /\ reserved' = reserved \ {c}
    /\ txn' = [txn EXCEPT ![c] = NoTxn]
    /\ pc' = [pc EXCEPT ![c] = "idle"]
    /\ UNCHANGED <<shared, writing, commitOrder>>
    /\ UNCHANGED seqVars
    /\ UNCHANGED botVars

\* list_links: with db_connect() as conn
StartRead(c) ==
    /\ c \in Listers
    /\ pc[c] = "idle"
    /\ pc' = [pc EXCEPT ![c] = "read_connected"]
    /\ UNCHANGED <<txn, reserved, shared, writing, calls, commitOrder>>
    /\ UNCHANGED seqVars
    /\ UNCHANGED botVars

\* cursor.execute("SELECT ... ORDER BY timestamp DESC LIMIT ?"): the rows are
\* read and sorted under a SHARED lock, which the open statement keeps
ExecuteSelect(c) ==
    /\ pc[c] = "read_connected"
    /\ ShareAllowed(c)
    /\ shared' = shared \cup {c}
    /\ txn' = [txn EXCEPT ![c].snapshot = table]
    /\ pc' = [pc EXCEPT ![c] = "read_open"]
    /\ UNCHANGED <<reserved, writing, calls, commitOrder>>
    /\ UNCHANGED seqVars
    /\ UNCHANGED botVars

\* cursor.execute("SELECT ...") finds the file locked by a commit until the
\* timeout: list_links returns []
SelectBusy(c) ==
    /\ pc[c] = "read_connected"
    /\ ~ShareAllowed(c)
    /\ pc' = [pc EXCEPT ![c] = "idle"]
    /\ UNCHANGED <<txn, reserved, shared, writing, calls, commitOrder>>
    /\ UNCHANGED seqVars
    /\ UNCHANGED botVars

\* cursor.fetchall(), commit, close, return
FetchAll(c) ==
    /\ pc[c] = "read_open"
    /\ shared' = shared \ {c}
    /\ txn' = [txn EXCEPT ![c] = NoTxn]
    /\ pc' = [pc EXCEPT ![c] = "idle"]
    /\ UNCHANGED <<reserved, writing, calls, commitOrder>>
    /\ UNCHANGED seqVars
    /\ UNCHANGED botVars

NextConc ==
    \E c \in Callers :
        \/ StartAdd(c)
        \/ ExecuteInsert(c)
        \/ InsertBusy(c)
        \/ CommitBegin(c)
        \/ CommitEnd(c)
        \/ CommitBusy(c)
        \/ StartRead(c)
        \/ ExecuteSelect(c)
        \/ SelectBusy(c)
        \/ FetchAll(c)

SpecConc == Init /\ [][NextConc]_vars

(***************************************************************************)
(* SpecBot: the bot's commands, one whole handler at a time (the handlers  *)
(* make their store and resolver calls without awaiting in between)        *)
(***************************************************************************)
\* what the users upload
BotLinks        == {"https://terabox.com/s/1a", "https://terabox.com/s/1b"}
BotDescriptions == { <<"a", "x", "b">>, <<"v", "2">> }

\* what they ask for: ids, keywords, 2^63 and a superscript two
RequestQueries ==
    { <<"1">>, <<"2">>, <<"b">>, <<"z">>, <<"²">>, FormatInt(INT64_OVER) }

Handle_upload ==
    \E u \in UserIds, ch \in ChatIds, d \in BotDescriptions, l \in BotLinks, f \in Faults :
         LET a == [NoArgs EXCEPT !.user_id = u, !.chat_id = ch,
                                 !.description = d, !.terabox_link = l]
         IN  \* the table is kept within MaxRecords rows
             /\ Len(table) < MaxRecords \/ UniqueViolation(table, l)
             /\ \E out \in upload_command(table, seq, clock, a, f) :
                  /\ table' = out.table
                  /\ seq' = out.seq
                  /\ inserted' = IF Len(out.table) > Len(table)
                                 THEN Append(inserted, [id |-> out.seq, description |-> d,
                                                        terabox_link |-> l])
                                 ELSE inserted
                  /\ bot' = out.bot
                  /\ UNCHANGED <<clock, last>>
                  /\ UNCHANGED concVars

\* where storage faults strike the up to three store calls of one /request:
\* at most one of them
RequestFaults ==
    { f \in [1..3 -> ReadFaults] : Cardinality({ k \in 1..3 : f[k] # "none" }) <= 1 }

Handle_request ==
    /\ \E q \in RequestQueries, f \in RequestFaults, rf \in ResolveFaults :
          bot' \in request_command(table, q, clock, f[1], f[2], f[3], rf)
    /\ UNCHANGED seqVars
    /\ UNCHANGED concVars

Handle_download ==
    /\ \E l \in BotLinks, rf \in ResolveFaults :
          bot' \in download_command(l, clock, rf)
    /\ UNCHANGED seqVars
    /\ UNCHANGED concVars

NextBot ==
    \/ Tick
    \/ Handle_upload
    \/ Handle_request
    \/ Handle_download

SpecBot == Init /\ [][NextBot]_vars

(***************************************************************************)
(* Properties of the store, one call at a time (Spec)                      *)
(***************************************************************************)
\* C1: in every reachable state no two rows of file_board have the same
\* terabox_link.
C1_UniqueLinks ==
    \A i, j \in 1..Len(table) :
        i # j => table[i].terabox_link # table[j].terabox_link

\* two rows are stored and an add_link with a stored link has just been refused
C1_Witness ==
    /\ Len(table) >= 2
    /\ last.op = "add_link" /\ last.dup /\ last.fault = "none"

\* C2: an add_link call whose terabox_link is already stored returns False
\* without raising, and leaves the table (and the id sequence) as it was.
C2_DuplicateRejected ==
    [][ (/\ last' # last /\ last'.op = "add_link"   \* the step is an add_link call
         /\ UniqueViolation(table, last'.a.terabox_link))
          => /\ table' = table
             /\ seq' = seq
             /\ last'.raised = "none"
             /\ last'.ret = PyBool(FALSE) ]_vars

\* a duplicate was offered with a description other than the stored one
C2_Witness ==
    /\ last.op = "add_link" /\ last.dup /\ last.fault = "none"
    /\ \E r \in Rows(table) : /\ r.terabox_link = last.a.terabox_link
                              /\ r.description # last.a.description

C4_ReturnsId ==
    (last.op = "add_link" /\ last.exc = "none")
        => NumericValue(last.ret) = table[Len(table)].id

InsertedWith(link_id) == { k \in 1..Len(inserted) : IdEquals(inserted[k].id, link_id) }

\* C4 amended: a successful add_link returns True, not the id; the row it
\* commits has a new id, and a later get_link_by_id on that id gives the
\* description and terabox_link of that insert, or None when a storage fault
\* strikes the lookup.
C4_RoundTrip ==
    /\ (last.op = "add_link" /\ last.exc = "none") =>
          /\ last.ret = PyBool(TRUE)
          /\ inserted[Len(inserted)] =
                [id |-> table[Len(table)].id, description |-> last.a.description,
                 terabox_link |-> last.a.terabox_link]
    /\ (last.op = "get_link_by_id") =>
          \A k \in InsertedWith(last.a.link_id) :
             IF last.fault = "none"
             THEN last.ret = PyDict([id |-> inserted[k].id,
                                     description |-> inserted[k].description,
                                     terabox_link |-> inserted[k].terabox_link])
             ELSE last.ret = PyNone

\* the second of two inserts was read back
C4_Witness ==
    /\ last.op = "get_link_by_id" /\ last.ret.type = "dict"
    /\ Len(table) >= 2 /\ last.ret.rows[1].id = table[2].id

\* q is a literal substring of s, ASCII case ignored
ContainsIgnoreCase(s, q) ==
    \E i \in 1..(Len(s) - Len(q) + 1) :
        \A k \in 1..Len(q) : Fold(s[i + k - 1]) = Fold(q[k])

\* C5 as stated: with a limit no smaller than the table, search_links returns
\* exactly the rows whose description contains the query as a literal
\* substring, case ignored, also for queries with % or _.
C5_LiteralSubstring ==
    (last.op = "search_links" /\ last.fault = "none" /\ last.a.limit >= Len(table))
        => { r.id : r \in Rows(last.ret.rows) } =
           { r.id : r \in { x \in Rows(table) :
                              ContainsIgnoreCase(x.description, last.a.query) } }

\* the rows' timestamps do not increase
Descending(rows) ==
    \A i \in 1..Len(rows) : i < Len(rows) => rows[i].timestamp >= rows[i + 1].timestamp

C7_AbsentIsNone ==
    (/\ last.op = "get_link_by_id"
     /\ ~\E r \in Rows(table) : IdEquals(r.id, last.a.link_id))
        => last.ret = PyNone /\ last.raised = "none"

\* C8 as stated: a storage fault in a read gives the caller something other
\* than what a fault-free call that found nothing gives.
C8_FaultIsTold ==
    /\ (last.op \in {"list_links", "search_links"} /\ last.fault # "none")
          => last.ret # PyList(<<>>)
    /\ (last.op = "get_link_by_id" /\ last.fault # "none") => last.ret # PyNone
    /\ (last.op = "add_link" /\ last.fault # "none") => last.ret # PyBool(TRUE)

\* C9: a stored row stays as it is for ever, rows are only ever added at the
\* end, one at a time, and a new row's id is greater than every id handed
\* out before.
C9_RowsKept ==
    [][ /\ Len(table') >= Len(table)
        /\ \A i \in 1..Len(table) : table'[i] = table[i]
        /\ Len(table') > Len(table) =>
              /\ Len(table') = Len(table) + 1
              /\ table'[Len(table')].id > seq
              /\ \A i \in 1..Len(table) : table'[Len(table')].id > table[i].id
              /\ seq' = table'[Len(table')].id
        /\ Len(table') = Len(table) => seq' = seq ]_vars

\* a second row was added after a refused and a failed attempt
C9_Witness ==
    /\ Len(table) >= 2
    /\ last.op = "add_link" /\ last.exc = "none"
    /\ table[2].id > table[1].id

(***************************************************************************)
(* Properties of overlapping calls (SpecConc)                              *)
(***************************************************************************)
Committed == { commitOrder[i] : i \in 1..Len(commitOrder) }
Done      == { k \in 1..Len(calls) : calls[k].done }
Succeeded == { k \in Done : calls[k].ret = PyBool(TRUE) }

\* the table that running the calls of order one after the other, each as a
\* whole add_link call without storage fault, builds from tbl
RECURSIVE Replay(_, _, _)
Replay(order, tbl, sq) ==
    IF order = <<>> THEN tbl
    ELSE LET k   == Head(order)
             out == CHOOSE o \in add_link(tbl, sq, calls[k].now, calls[k].a, "none") : TRUE
         IN  Replay(Tail(order), out.table, out.seq)

\* the table is what the committed calls, run serially in commit order, give
SerialOfCommitted ==
    /\ table = Replay(commitOrder, <<>>, 0)
    /\ Len(table) = Len(commitOrder)
    /\ \A i \in 1..Len(table) :
          table[i] = NewRow(calls[commitOrder[i]].id, calls[commitOrder[i]].a,
                            calls[commitOrder[i]].now)

\* a reader holds its rows only while nobody writes the file, and they are
\* the committed table
NoTornRead ==
    \A c \in Callers :
        pc[c] = "read_open" => writing = {} /\ txn[c].snapshot = table

\* add_link returns True exactly when its row was committed
SuccessIffCommitted ==
    /\ \A k \in Done : /\ calls[k].ret \in {PyBool(TRUE), PyBool(FALSE)}
                       /\ (calls[k].ret = PyBool(TRUE)) = (k \in Committed)
    /\ Committed \subseteq Done

\* one of the two calls started while the other was under way
Overlap(k1, k2) == k1 \in calls[k2].during \/ k2 \in calls[k1].during

SameLink(l) == { k \in Done : calls[k].a.terabox_link = l }

HasVideoExtension(link) ==
    \E ext \in VIDEO_EXTENSIONS :
        /\ Len(link) >= Len(ext)
        /\ StrLower(SubSeq(link, Len(link) - Len(ext) + 1, Len(link))) = ext

\* C11: get_terabox_link never raises to its caller: whenever a handler has
\* passed a link to it, it gave back either a result with a download_link or
\* None, and process_terabox_link saw no exception; a result has a
\* stream_link exactly when its download_link ends, case ignored, in a video
\* extension, and the stream_link then is the download_link.
C11_ResolverTotal ==
    bot.resolved # <<>> =>
        /\ bot.info.type \in {"dict", "NoneType"}
        /\ bot.replies[Len(bot.replies)] # "An unexpected error occurred"
        /\ bot.info.type = "dict" =>
              /\ bot.info.download_link # <<>>
              /\ bot.info.has_stream = HasVideoExtension(bot.info.download_link)
              /\ (bot.info.stream_link # <<>>) = bot.info.has_stream
              /\ bot.info.has_stream => bot.info.stream_link = bot.info.download_link
        /\ bot.info.type = "NoneType" =>
              bot.replies[Len(bot.replies)] = "Failed to extract the direct link."

\* /request found a record and the resolver gave a result for its link: a
\* download_link that is no video, so without stream_link
C11_Witness ==
    /\ bot.cmd = "request" /\ bot.resolved # <<>>
    /\ bot.info.type = "dict" /\ bot.info.download_link # <<>>
    /\ ~bot.info.has_stream

\* the records /request q is to find: the one whose id is the number q, and
\* the newest of those whose description matches q by search
RecordWithId(q) == { r \in Rows(table) : IsDecimal(q) /\ IdEquals(r.id, ParseInt(q)) }
SearchMatches(q) == Rows(WhereDescriptionLike(table, SearchTerm(q)))
NewestMatches(q) ==
    { m \in SearchMatches(q) : \A x \in SearchMatches(q) : x.timestamp <= m.timestamp }

\* C12 as stated, for a /request whose store calls met no storage fault: if q
\* is all digits and a record has id q, that record's terabox_link is passed
\* to the resolver; otherwise the terabox_link of the most recent record whose
\* description matches q by search is; and when there is neither, the
\* not-found reply is sent and the resolver is not called.
C12_RequestLookup ==
    (/\ bot.cmd = "request"
     /\ \A k \in 1..Len(bot.lookups) : bot.lookups[k].exc # "OperationalError")
        => IF RecordWithId(bot.query) # {}
           THEN \E r \in RecordWithId(bot.query) : bot.resolved = <<r.terabox_link>>
           ELSE IF SearchMatches(bot.query) # {}
           THEN \E m \in NewestMatches(bot.query) : bot.resolved = <<m.terabox_link>>
           ELSE /\ bot.resolved = <<>>
                /\ bot.replies = <<"Could not find a file matching by ID or keyword.">>

(***************************************************************************)
(* Properties of the connection scope (Spec)                               *)
(***************************************************************************)
\* how often the call e was made on the connection of the last store call
Times(e) == Cardinality({ i \in 1..Len(last.events) : last.events[i] = e })

\* the body of the last store call ran to its end: nothing was raised, or
\* only the commit after it was
BodyFinished ==
    \/ last.exc = "none"
    \/ last.fault = "commit" /\ ~last.dup /\ last.exc = "OperationalError"

\* C13 as stated: the connection a store call opened was opened once and
\* closed once, as the last thing before the call returned or raised, so that
\* none is open between two calls; commit was called on it exactly when the
\* body finished without an error, and rollback was called on it exactly when
\* the body or the commit raised.
C13_Scoped ==
    last.events # <<>> =>
        /\ last.events[1] = "connect" /\ Times("connect") = 1
        /\ last.events[Len(last.events)] = "close" /\ Times("close") = 1
        /\ (Times("commit") + Times("commit_failed") = 1) = BodyFinished
        /\ (Times("commit") + Times("commit_failed") = 0) = ~BodyFinished
        /\ (Times("commit") = 1) = (last.exc = "none")
        /\ (Times("rollback") = 1) = (last.exc # "none")
        /\ (Times("rollback") = 0) = (last.exc = "none")

====
